---- MODULE Spec2Model ----
(***************************************************************************)
(* Model of keras_hub/src/models/gemma3/gemma3_vision_encoder.py.          *)
(*                                                                         *)
(* The program is modelled at the level its contracts are stated at:       *)
(* constructor arguments, the attributes every layer object records, the   *)
(* order in which __init__/build/call run, and the SHAPE of every tensor   *)
(* (a tuple of integers).  Every ops.reshape is element-count checked, the *)
(* valid-padding convolution and pooling compute their output length the   *)
(* way the framework does, and a failed reshape is a shape error.          *)
(***************************************************************************)
EXTENDS Integers, Sequences, FiniteSets, TLC

VARIABLES
    args,           \* the arguments Gemma3VisionEncoder.__init__ was called with
    pc,             \* position inside __init__ / the forward pass
    dtype,          \* the local variable `dtype` of Gemma3VisionEncoder.__init__
    image_encoder,  \* the Gemma3VisionEncoderBlock object (or Null)
    pooling,        \* the Gemma3VisionAveragePooling object (or Null)
    vision_output,  \* the Gemma3VisionOutput object (or Null)
    spec_shape,     \* symbolic shape of the intermediate result `x` in __init__
    self,           \* the attributes set under "=== Config ===" (or Null)
    inputs,         \* shape of the image batch of the current forward pass
    mask,           \* the mask given to the encoder stack in this forward pass
    x,              \* shape of the intermediate tensor of the forward pass
    layer_i,        \* index of the next encoder layer in the `for block` loop
    trace,          \* the stages of the current forward pass, in execution order
    config_out,     \* what the last get_config() call returned
    caller,         \* who started the forward pass: the model or the stack alone
    first,          \* the encoder a configuration was extracted from (or Null)
    weights         \* the learned parameters the build methods have created

vars == <<args, pc, dtype, image_encoder, pooling, vision_output, spec_shape,
          self, inputs, mask, x, layer_i, trace, config_out, caller, first,
          weights>>

----------------------------------------------------------------------------
(* Bounds of the model. *)

MaxImageSize == 7
MaxLayers == 2
MaxBatch == 2

PatchSizes == {1, 2}
PoolSizes == {1, 2, 3}
NumHeads == {2}
HiddenDims == {3, 4, 6}
IntermediateDims == {7}
OutputDims == {5}
ImagesPerExample == {1, 2}

(* Program constants. *)

PoolSizeDefault == 14               \* pool_size=14
EpsDefault == 1                     \* layer_norm_epsilon=1e-6, in units of 1e-6
EncoderLayerEpsDefault == 1         \* Gemma3VisionEncoderLayer: 1e-6
EncoderBlockEpsDefault == 1         \* Gemma3VisionEncoderBlock: 1e-6
NumChannels == 3                    \* num_channels=3, shape=(..., 3)
NoneDim == 0                        \* a `None` (unknown) dimension of a symbolic shape

Epsilons == {EpsDefault, 10}        \* 1e-6 and 1e-5

----------------------------------------------------------------------------
(* Python values. *)

Null == [kind |-> "null"]
PyNone == [kind |-> "None"]
ValueError == [kind |-> "ValueError"]
ShapeError == <<0 - 1>>

IsNull(v) == v = Null
Raised(v) == v = ValueError

(* A dtype argument: None, a string, or a keras DTypePolicy object. *)
NoDtype == [kind |-> "none", name |-> "none"]
Str(n) == [kind |-> "str", name |-> n]
DTypePolicy(n) == [kind |-> "policy", name |-> n]

DtypeArgs == {NoDtype, Str("bfloat16"), Str("float16"), DTypePolicy("bfloat16")}

(* `dtype == "bfloat16"`: Python compares a str with a str by value; None    *)
(* and a DTypePolicy object are never equal to a str.                        *)
PyEqStr(d, s) == d.kind = "str" /\ d.name = s

(* keras.config.dtype_policy().name : the process-wide default policy.     *)
GlobalPolicyName == "float32"

(* keras.dtype_policies.get(dtype) / the pre-3.2 fallback: the policy's name *)
DTypePoliciesGet(d) == IF d.kind = "none" THEN GlobalPolicyName ELSE d.name

----------------------------------------------------------------------------
(* Tensor shapes. *)

RECURSIVE Prod(_)
Prod(s) == IF Len(s) = 0 THEN 1 ELSE Head(s) * Prod(Tail(s))

Last(s) == s[Len(s)]

(* ops.reshape: the target must hold as many elements as the tensor does. *)
Reshape(s, target) ==
    IF s = ShapeError THEN ShapeError
    ELSE IF Prod(s) = Prod(target) THEN target ELSE ShapeError

(* ops.transpose(tensor, axes) with 0-based axes. *)
Transpose(s, axes) ==
    IF s = ShapeError THEN ShapeError
    ELSE [i \in 1..Len(s) |-> s[axes[i] + 1]]

(* ops.matmul of two rank-4 tensors: batch dimensions broadcast, inner agree. *)
BroadcastDim(a, b) == IF a = b THEN a ELSE IF a = 1 THEN b ELSE IF b = 1 THEN a ELSE 0 - 1

Broadcast(s, t) ==
    IF s = ShapeError \/ t = ShapeError \/ Len(s) # Len(t) THEN ShapeError
    ELSE LET r == [i \in 1..Len(s) |-> BroadcastDim(s[i], t[i])]
         IN IF \E i \in 1..Len(s) : r[i] = 0 - 1 THEN ShapeError ELSE r

MatMul(s, t) ==
    IF s = ShapeError \/ t = ShapeError THEN ShapeError
    ELSE IF s[4] # t[3] \/ BroadcastDim(s[1], t[1]) = 0 - 1
                        \/ BroadcastDim(s[2], t[2]) = 0 - 1 THEN ShapeError
    ELSE <<BroadcastDim(s[1], t[1]), BroadcastDim(s[2], t[2]), s[3], t[4]>>

(* keras.layers.Dense built for inputs of width in_dim. *)
Dense(s, in_dim, units) ==
    IF s = ShapeError THEN ShapeError
    ELSE IF Last(s) # in_dim THEN ShapeError
    ELSE [s EXCEPT ![Len(s)] = units]

(* Output length of a padding="valid" window of size k moved by stride st. *)
(* A faulty variant: the output length of padding="same", ceil(n / st). *)
ValidOutputLength_same(n, k, st) == (n + st - 1) \div st

ValidOutputLength(n, k, st) == ((n - k) \div st) + 1

(* keras.layers.Conv2D(filters, kernel_size=k, strides=k, padding="valid") *)
Conv2D(s, filters, k) ==
    IF s = ShapeError \/ Len(s) # 4 THEN ShapeError
    ELSE <<s[1], ValidOutputLength(s[2], k, k), ValidOutputLength(s[3], k, k), filters>>

(* keras.layers.AveragePooling2D(pool_size=k, strides=k, padding="valid") *)
AveragePooling2D(s, k) ==
    IF s = ShapeError \/ Len(s) # 4 THEN ShapeError
    ELSE <<s[1], ValidOutputLength(s[2], k, k), ValidOutputLength(s[3], k, k), s[4]>>

----------------------------------------------------------------------------
(* Gemma3VisionEmbedding *)

(* A faulty variant of num_patches: `* 2` written for `** 2`. *)
NumPatches_doubled(image_size, patch_size) ==
    (image_size \div patch_size) * 2

NumPatches(image_size, patch_size) ==
    (image_size \div patch_size) * (image_size \div patch_size)

(* ops.arange(n): the indices 0 .. n-1 *)
Arange(n) == [i \in 1..n |-> i - 1]

Gemma3VisionEmbedding_init(image_size, patch_size, hidden_dim, d) ==
    LET num_patches == NumPatches(image_size, patch_size)
        num_positions == num_patches
    IN [name |-> "encoder_embeddings",
        hidden_dim |-> hidden_dim,
        image_size |-> image_size,
        patch_size |-> patch_size,
        num_channels |-> NumChannels,
        patch_embedding |-> [filters |-> hidden_dim, kernel_size |-> patch_size,
                             strides |-> patch_size, dtype |-> d],
        num_patches |-> num_patches,
        num_positions |-> num_positions,
        position_embedding |-> [input_dim |-> num_positions,
                                output_dim |-> hidden_dim, dtype |-> d],
        position_ids |-> <<Arange(num_positions)>>,
        dtype |-> d]

Gemma3VisionEmbedding_call(emb, input_tokens) ==
    LET conv == Conv2D(input_tokens, emb.patch_embedding.filters,
                       emb.patch_embedding.kernel_size)
        flat == IF conv = ShapeError THEN ShapeError
                ELSE Reshape(conv, <<conv[1], emb.num_patches, emb.hidden_dim>>)
        \* position_embedding(position_ids): (1, len(position_ids[0]), hidden_dim)
        pos == <<Len(emb.position_ids), Len(emb.position_ids[1]),
                 emb.position_embedding.output_dim>>
    IN Broadcast(flat, pos)

Gemma3VisionEmbedding_compute_output_shape(emb, input_shape) ==
    <<input_shape[1], emb.num_patches, emb.hidden_dim>>

----------------------------------------------------------------------------
(* Gemma3VisionAttention *)

(* A faulty variant of the check, its comparison turned: it never fails. *)
HeadDimCheckFails_wrong(hidden_dim, num_heads, head_dim) ==
    head_dim * num_heads > hidden_dim

HeadDimCheckFails(hidden_dim, num_heads, head_dim) ==
    head_dim * num_heads # hidden_dim

Gemma3VisionAttention_init(hidden_dim, num_heads, d) ==
    LET head_dim == hidden_dim \div num_heads
    IN IF HeadDimCheckFails(hidden_dim, num_heads, head_dim) THEN ValueError
       ELSE [kind |-> "Gemma3VisionAttention",
             name |-> "multi_head_attention",
             hidden_dim |-> hidden_dim,
             num_heads |-> num_heads,
             head_dim |-> head_dim,
             dtype |-> d]

TransposeForScores(attn, tensor, batch_size) ==
    IF tensor = ShapeError THEN ShapeError
    ELSE LET seq_len == tensor[2]
         IN Transpose(Reshape(tensor, <<batch_size, seq_len, attn.num_heads,
                                        attn.head_dim>>),
                      <<0, 2, 1, 3>>)

(* Returns <<attn_output, attention_probs>> (shapes). *)
Gemma3VisionAttention_call(attn, s, attention_mask) ==
    LET batch_size == s[1]
        mixed_query_layer == Dense(s, attn.hidden_dim, attn.hidden_dim)
        mixed_key_layer == Dense(s, attn.hidden_dim, attn.hidden_dim)
        mixed_value_layer == Dense(s, attn.hidden_dim, attn.hidden_dim)
        query_layer == TransposeForScores(attn, mixed_query_layer, batch_size)
        key_layer == TransposeForScores(attn, mixed_key_layer, batch_size)
        value_layer == TransposeForScores(attn, mixed_value_layer, batch_size)
        raw_scores == MatMul(query_layer, Transpose(key_layer, <<0, 1, 3, 2>>))
        attention_scores == IF attention_mask.kind = "None" THEN raw_scores
                            ELSE Broadcast(raw_scores, attention_mask.shape)
        attention_probs == attention_scores
        weighted == Transpose(MatMul(attention_probs, value_layer), <<0, 2, 1, 3>>)
        attn_output == IF weighted = ShapeError THEN ShapeError
                       ELSE Reshape(weighted, <<batch_size, weighted[2], attn.hidden_dim>>)
    IN <<Dense(attn_output, attn.hidden_dim, attn.hidden_dim), attention_probs>>

----------------------------------------------------------------------------
(* Gemma3VisionEncoderLayer *)

Gemma3VisionEncoderLayer_init(num_heads, intermediate_dim, layer_norm_epsilon, d, i) ==
    [kind |-> "Gemma3VisionEncoderLayer",
     name |-> <<"encoder_block", i>>,
     num_heads |-> num_heads,
     intermediate_dim |-> intermediate_dim,
     layer_norm_epsilon |-> layer_norm_epsilon,
     dtype |-> d,
     built |-> FALSE]

Gemma3VisionEncoderLayer_build(layer, input_shape) ==
    LET hidden_dim == Last(input_shape)
        dtype_policy == DTypePolicy(DTypePoliciesGet(layer.dtype))
        attn == Gemma3VisionAttention_init(hidden_dim, layer.num_heads, dtype_policy)
    IN IF Raised(attn) THEN ValueError
       ELSE [kind |-> "Gemma3VisionEncoderLayer",
             name |-> layer.name,
             num_heads |-> layer.num_heads,
             intermediate_dim |-> layer.intermediate_dim,
             layer_norm_epsilon |-> layer.layer_norm_epsilon,
             dtype |-> layer.dtype,
             built |-> TRUE,
             hidden_dim |-> hidden_dim,
             attn |-> attn,
             layer_norm_1 |-> [epsilon |-> layer.layer_norm_epsilon, dtype |-> dtype_policy],
             mlp_dense_1 |-> [in_dim |-> hidden_dim, units |-> layer.intermediate_dim],
             mlp_dense_2 |-> [in_dim |-> layer.intermediate_dim, units |-> hidden_dim],
             layer_norm_2 |-> [epsilon |-> layer.layer_norm_epsilon, dtype |-> dtype_policy]]

Gemma3VisionEncoderLayer_compute_attention(layer, s, m) ==
    Gemma3VisionAttention_call(layer.attn, s, m)[1]

(* A faulty variant of call: the second feed-forward projection and the      *)
(* second residual connection are left out.                                  *)
Gemma3VisionEncoderLayer_call_no_dense_2(layer, s, m) ==
    LET attended == Gemma3VisionEncoderLayer_compute_attention(layer, s, m)
        x1 == Broadcast(attended, s)
    IN Dense(x1, layer.mlp_dense_1.in_dim, layer.mlp_dense_1.units)

Gemma3VisionEncoderLayer_call(layer, s, m) ==
    LET residual1 == s
        normed1 == s                                    \* layer_norm_1 keeps the shape
        attended == Gemma3VisionEncoderLayer_compute_attention(layer, normed1, m)
        x1 == Broadcast(attended, residual1)            \* x = x + residual
        residual2 == x1
        h == Dense(residual2, layer.mlp_dense_1.in_dim, layer.mlp_dense_1.units)
        g == h                                          \* gelu keeps the shape
        x2 == Dense(g, layer.mlp_dense_2.in_dim, layer.mlp_dense_2.units)
    IN Broadcast(residual2, x2)                         \* residual + x

----------------------------------------------------------------------------
(* Gemma3VisionEncoderBlock *)

Gemma3VisionEncoderBlock_init(patch_size, image_size, hidden_dim, num_layers, num_heads, intermediate_dim, layer_norm_epsilon, d) ==
    [name |-> "image_encoder",
     patch_size |-> patch_size,
     image_size |-> image_size,
     hidden_dim |-> hidden_dim,
     num_layers |-> num_layers,
     num_heads |-> num_heads,
     intermediate_dim |-> intermediate_dim,
     layer_norm_epsilon |-> layer_norm_epsilon,
     dtype |-> d,
     encoder_layer_norm |-> [name |-> "encoder_layer_norm",
                             epsilon |-> layer_norm_epsilon, dtype |-> d],
     vision_embeddings |-> Gemma3VisionEmbedding_init(image_size, patch_size,
                                                      hidden_dim, d),
     \* layer_norm_epsilon is not passed on: each layer takes its own default
     resblocks |-> [i \in 1..num_layers |->
                      Gemma3VisionEncoderLayer_init(num_heads, intermediate_dim,
                                                    EncoderLayerEpsDefault, d, i - 1)],
     built |-> FALSE]

(* build(): every layer of resblocks is built, in order, for inputs of width  *)
(* hidden_dim; the first layer whose build raises aborts the whole build.    *)
Gemma3VisionEncoderBlock_build(block) ==
    LET n == Len(block.resblocks)
        built == [i \in 1..n |->
                    Gemma3VisionEncoderLayer_build(block.resblocks[i],
                                                   <<NoneDim, NoneDim, block.hidden_dim>>)]
    IN IF \E i \in 1..n : Raised(built[i]) THEN ValueError
       ELSE [block EXCEPT !.resblocks = built, !.built = TRUE]

Gemma3VisionEncoderBlock_compute_output_shape(block, inputs_shape) ==
    <<NoneDim,
      (inputs_shape[3] \div block.patch_size) * (inputs_shape[3] \div block.patch_size),
      block.hidden_dim>>

(* The first statement of call(): collapse batch_size and images per prompt. *)
CollapseBatch(s) == Reshape(s, <<s[1] * s[2]>> \o SubSeq(s, 3, Len(s)))

----------------------------------------------------------------------------
(* Gemma3VisionAveragePooling *)

Gemma3VisionAveragePooling_init(image_size, patch_size, pool_size, d) ==
    LET width == image_size \div patch_size
    IN [name |-> "pooling",
        width |-> width,
        reduced_width |-> width \div pool_size,
        image_size |-> image_size,
        patch_size |-> patch_size,
        pool_size |-> pool_size,
        dtype |-> d]

Gemma3VisionAveragePooling_call(pool, s) ==
    IF s = ShapeError \/ Len(s) # 3 THEN ShapeError
    ELSE LET batch_size == s[1]
             hidden_dim == s[3]
             grid == Reshape(s, <<batch_size, pool.width, pool.width, hidden_dim>>)
             pooled == AveragePooling2D(grid, pool.pool_size)
         IN Reshape(pooled, <<batch_size, pool.reduced_width * pool.reduced_width,
                              hidden_dim>>)

Gemma3VisionAveragePooling_compute_output_shape(pool, input_shape) ==
    <<input_shape[1], pool.reduced_width * pool.reduced_width, Last(input_shape)>>

----------------------------------------------------------------------------
(* Gemma3VisionOutput *)

RandomNormal == [class_name |-> "RandomNormal", mean |-> 0, stddev_percent |-> 1]

(* keras.initializers.serialize(initializer) *)
SerializeInitializer(i) ==
    [class_name |-> i.class_name,
     config |-> [mean |-> i.mean, stddev_percent |-> i.stddev_percent]]

Gemma3VisionOutput_init(output_dim, layer_norm_epsilon, kernel_initializer, d) ==
    [name |-> "vision_output_encoder",
     layer_norm_epsilon |-> layer_norm_epsilon,
     output_dim |-> output_dim,
     kernel_initializer |-> kernel_initializer,
     dtype |-> d,
     built |-> FALSE]

Gemma3VisionOutput_build(out, input_shape) ==
    LET dtype_policy == DTypePolicy(DTypePoliciesGet(out.dtype))
    IN [name |-> out.name,
        layer_norm_epsilon |-> out.layer_norm_epsilon,
        output_dim |-> out.output_dim,
        kernel_initializer |-> out.kernel_initializer,
        dtype |-> out.dtype,
        built |-> TRUE,
        vision_soft_embedding_norm |-> [epsilon |-> out.layer_norm_epsilon,
                                        dtype |-> dtype_policy],
        vision_input_projection |-> [in_dim |-> Last(input_shape),
                                     units |-> out.output_dim,
                                     kernel_initializer |-> out.kernel_initializer,
                                     dtype |-> dtype_policy]]

Gemma3VisionOutput_call(out, s) ==
    \* vision_soft_embedding_norm keeps the shape
    Dense(s, out.vision_input_projection.in_dim, out.vision_input_projection.units)

(* get_config(): the dictionary is filled in and then dropped; the method    *)
(* has no return statement, so the call evaluates to None.                   *)
Gemma3VisionOutput_get_config(out) ==
    LET config == [kind |-> "config",
                   name |-> out.name,
                   output_dim |-> out.output_dim,
                   layer_norm_epsilon |-> out.layer_norm_epsilon,
                   kernel_initializer |-> SerializeInitializer(out.kernel_initializer)]
    IN PyNone

Gemma3VisionOutput_compute_output_shape(out, input_shape) ==
    SubSeq(input_shape, 1, Len(input_shape) - 1) \o <<out.output_dim>>

----------------------------------------------------------------------------
(* Learned parameters.  A parameter is known by the layer that owns it (and  *)
(* the index of the encoder block, -1 outside the blocks), the sublayer and  *)
(* variable name, its shape, and how often it was assigned since it was      *)
(* initialised.                                                              *)

Weight(layer, index, sublayer, var, shape) ==
    [layer |-> layer, index |-> index, sublayer |-> sublayer, var |-> var,
     shape |-> shape, updates |-> 0]

(* Gemma3VisionEmbedding.build *)
Gemma3VisionEmbedding_build_weights(emb, input_shape) ==
    <<Weight(emb.name, 0 - 1, "embedding_conv", "kernel",
             <<emb.patch_embedding.kernel_size, emb.patch_embedding.kernel_size,
               Last(input_shape), emb.patch_embedding.filters>>),
      Weight(emb.name, 0 - 1, "embedding_conv", "bias", <<emb.patch_embedding.filters>>),
      Weight(emb.name, 0 - 1, "position_embedding", "embeddings",
             <<emb.num_positions, emb.hidden_dim>>)>>

(* Gemma3VisionAttention.build *)
Gemma3VisionAttention_build_weights(attn, i) ==
    <<Weight(attn.name, i, "query_proj", "kernel", <<attn.hidden_dim, attn.hidden_dim>>),
      Weight(attn.name, i, "query_proj", "bias", <<attn.hidden_dim>>),
      Weight(attn.name, i, "key_proj", "kernel", <<attn.hidden_dim, attn.hidden_dim>>),
      Weight(attn.name, i, "key_proj", "bias", <<attn.hidden_dim>>),
      Weight(attn.name, i, "value_proj", "kernel", <<attn.hidden_dim, attn.hidden_dim>>),
      Weight(attn.name, i, "value_proj", "bias", <<attn.hidden_dim>>),
      Weight(attn.name, i, "out_proj", "kernel", <<attn.hidden_dim, attn.hidden_dim>>),
      Weight(attn.name, i, "out_proj", "bias", <<attn.hidden_dim>>)>>

(* Gemma3VisionEncoderLayer.build, lines 385-389 *)
Gemma3VisionEncoderLayer_build_weights(layer, i) ==
    Gemma3VisionAttention_build_weights(layer.attn, i)
    \o <<Weight("encoder_block", i, "layer_norm_1", "gamma", <<layer.hidden_dim>>),
         Weight("encoder_block", i, "layer_norm_1", "beta", <<layer.hidden_dim>>),
         Weight("encoder_block", i, "mlp_dense_1", "kernel",
                <<layer.mlp_dense_1.in_dim, layer.mlp_dense_1.units>>),
         Weight("encoder_block", i, "mlp_dense_1", "bias", <<layer.mlp_dense_1.units>>),
         Weight("encoder_block", i, "mlp_dense_2", "kernel",
                <<layer.mlp_dense_2.in_dim, layer.mlp_dense_2.units>>),
         Weight("encoder_block", i, "mlp_dense_2", "bias", <<layer.mlp_dense_2.units>>),
         Weight("encoder_block", i, "layer_norm_2", "gamma", <<layer.hidden_dim>>),
         Weight("encoder_block", i, "layer_norm_2", "beta", <<layer.hidden_dim>>)>>

RECURSIVE LayersWeights(_, _)
LayersWeights(blocks, i) ==
    IF i > Len(blocks) THEN <<>>
    ELSE Gemma3VisionEncoderLayer_build_weights(blocks[i], i - 1)
         \o LayersWeights(blocks, i + 1)

(* Gemma3VisionEncoderBlock.build: embeddings, then each block, then the     *)
(* final normalization.                                                      *)
Gemma3VisionEncoderBlock_build_weights(block, inputs_shape) ==
    Gemma3VisionEmbedding_build_weights(block.vision_embeddings,
                                        SubSeq(inputs_shape, 2, Len(inputs_shape)))
    \o LayersWeights(block.resblocks, 1)
    \o <<Weight(block.name, 0 - 1, "encoder_layer_norm", "gamma", <<block.hidden_dim>>),
         Weight(block.name, 0 - 1, "encoder_layer_norm", "beta", <<block.hidden_dim>>)>>

(* Gemma3VisionOutput.build: a scale-only normalization and a bias-free      *)
(* projection.                                                               *)
Gemma3VisionOutput_build_weights(out) ==
    <<Weight(out.name, 0 - 1, "vision_soft_embedding_norm", "scale",
             <<out.vision_input_projection.in_dim>>),
      Weight(out.name, 0 - 1, "vision_input_projection", "kernel",
             <<out.vision_input_projection.in_dim, out.vision_input_projection.units>>)>>

----------------------------------------------------------------------------
(* Gemma3VisionEncoder *)

NumVisionTokensPerImage(image_size, patch_size, pool_size) ==
    ((image_size \div patch_size) * (image_size \div patch_size))
        \div (pool_size * pool_size)

(* `if dtype == "bfloat16": dtype = "float32"` *)
OverriddenDtype(d) == IF PyEqStr(d, "bfloat16") THEN Str("float32") ELSE d

(* The attributes assigned under "=== Config ===" and the dtype policy. *)
Gemma3VisionEncoder_attributes(a, d, output_shape) ==
    [image_size |-> a.image_size,
     patch_size |-> a.patch_size,
     num_heads |-> a.num_heads,
     hidden_dim |-> a.hidden_dim,
     num_layers |-> a.num_layers,
     intermediate_dim |-> a.intermediate_dim,
     output_dim |-> a.output_dim,
     pool_size |-> a.pool_size,
     layer_norm_epsilon |-> a.layer_norm_epsilon,
     num_vision_tokens_per_image |->
         NumVisionTokensPerImage(a.image_size, a.patch_size, a.pool_size),
     dtype_policy |-> DTypePoliciesGet(d),
     output_shape |-> output_shape]

(* super().get_config() of the model: the framework's own entries. *)
BaseConfig == [kind |-> "config", name |-> "gemma3_vision_encoder", trainable |-> TRUE]

(* A faulty variant of get_config: image_size and patch_size are read from   *)
(* each other's attribute.                                                   *)
Gemma3VisionEncoder_get_config_swapped(obj) ==
    [kind |-> BaseConfig.kind,
     name |-> BaseConfig.name,
     trainable |-> BaseConfig.trainable,
     num_heads |-> obj.num_heads,
     hidden_dim |-> obj.hidden_dim,
     num_layers |-> obj.num_layers,
     intermediate_dim |-> obj.intermediate_dim,
     output_dim |-> obj.output_dim,
     pool_size |-> obj.pool_size,
     image_size |-> obj.patch_size,
     patch_size |-> obj.image_size,
     layer_norm_epsilon |-> obj.layer_norm_epsilon]

Gemma3VisionEncoder_get_config(obj) ==
    [kind |-> BaseConfig.kind,
     name |-> BaseConfig.name,
     trainable |-> BaseConfig.trainable,
     num_heads |-> obj.num_heads,
     hidden_dim |-> obj.hidden_dim,
     num_layers |-> obj.num_layers,
     intermediate_dim |-> obj.intermediate_dim,
     output_dim |-> obj.output_dim,
     pool_size |-> obj.pool_size,
     image_size |-> obj.image_size,
     patch_size |-> obj.patch_size,
     layer_norm_epsilon |-> obj.layer_norm_epsilon]

(* from_config: the constructor arguments a configuration turns into.        *)
(* pool_size and layer_norm_epsilon fall back to the signature's defaults.   *)
ArgsFromConfig(config, d) ==
    [image_size |-> config.image_size,
     patch_size |-> config.patch_size,
     num_heads |-> config.num_heads,
     hidden_dim |-> config.hidden_dim,
     num_layers |-> config.num_layers,
     intermediate_dim |-> config.intermediate_dim,
     output_dim |-> config.output_dim,
     pool_size |-> IF "pool_size" \in DOMAIN config THEN config.pool_size
                   ELSE PoolSizeDefault,
     layer_norm_epsilon |-> IF "layer_norm_epsilon" \in DOMAIN config
                            THEN config.layer_norm_epsilon ELSE EpsDefault,
     dtype |-> d]

(* What is compared when two encoders are called architecturally identical:  *)
(* the sublayer names in order and every derived shape.                      *)
Architecture(obj, block, pool, out) ==
    [topology |-> <<block.name,
                    <<block.vision_embeddings.name>>
                        \o [i \in 1..Len(block.resblocks) |-> block.resblocks[i].name]
                        \o <<block.encoder_layer_norm.name>>,
                    pool.name,
                    out.name>>,
     num_patches |-> block.vision_embeddings.num_patches,
     width |-> pool.width,
     reduced_width |-> pool.reduced_width,
     num_vision_tokens_per_image |-> obj.num_vision_tokens_per_image,
     hidden_dim |-> block.hidden_dim,
     head_dims |-> [i \in 1..Len(block.resblocks) |-> block.resblocks[i].attn.head_dim],
     intermediate_dim |-> block.intermediate_dim,
     output_dim |-> out.vision_input_projection.units,
     output_shape |-> obj.output_shape]

(* The constructor arguments considered: positive integers such that a patch *)
(* fits in the image and a pooling window fits in the patch grid (otherwise *)
(* every tensor of the forward pass is empty).                               *)
ArgSpace ==
  { a \in
    [image_size : 1..MaxImageSize,
     patch_size : PatchSizes,
     num_heads : NumHeads,
     hidden_dim : HiddenDims,
     num_layers : 0..MaxLayers,
     intermediate_dim : IntermediateDims,
     output_dim : OutputDims,
     pool_size : PoolSizes,
     layer_norm_epsilon : Epsilons,
     dtype : DtypeArgs] :
    /\ a.patch_size <= a.image_size
    /\ a.pool_size <= a.image_size \div a.patch_size }

Init ==
    /\ args \in ArgSpace
    /\ pc = "init"
    /\ dtype = args.dtype
    /\ image_encoder = Null
    /\ pooling = Null
    /\ vision_output = Null
    /\ spec_shape = <<>>
    /\ self = Null
    /\ inputs = <<>>
    /\ mask = PyNone
    /\ x = <<>>
    /\ layer_i = 0
    /\ trace = <<>>
    /\ config_out = Null
    /\ caller = "nobody"
    /\ first = Null
    /\ weights = <<>>

call_vars == <<inputs, mask, x, layer_i, trace, caller>>

(* __init__, lines 59-68: the dtype override and the symbolic image input. *)
OverrideDtype ==
    /\ pc = "init"
    /\ dtype' = OverriddenDtype(dtype)
    /\ spec_shape' = <<NoneDim, NoneDim, args.image_size, args.image_size, NumChannels>>
    /\ pc' = "make_block"
    /\ UNCHANGED <<args, image_encoder, pooling, vision_output, self, config_out,
                   first, weights, call_vars>>

(* __init__, lines 70-79: the stack is constructed and called on the         *)
(* symbolic input, which builds it; layer_norm_epsilon is not among the      *)
(* arguments, so the stack takes its default.                                *)
MakeEncoderBlock ==
    /\ pc = "make_block"
    /\ LET made == Gemma3VisionEncoderBlock_init(
                       args.patch_size, args.image_size, args.hidden_dim,
                       args.num_layers, args.num_heads, args.intermediate_dim,
                       EncoderBlockEpsDefault, dtype)
           built == Gemma3VisionEncoderBlock_build(made)
       IN IF Raised(built)
          THEN /\ pc' = "raised"
               /\ UNCHANGED <<image_encoder, spec_shape, weights>>
          ELSE /\ pc' = "make_pooling"
               /\ image_encoder' = built
               /\ spec_shape' =
                      Gemma3VisionEncoderBlock_compute_output_shape(built, spec_shape)
               /\ weights' = Gemma3VisionEncoderBlock_build_weights(built, spec_shape)
    /\ UNCHANGED <<args, dtype, pooling, vision_output, self, config_out, first,
                   call_vars>>

(* __init__, lines 81-87 *)
MakePooling ==
    /\ pc = "make_pooling"
    /\ LET made == Gemma3VisionAveragePooling_init(args.image_size, args.patch_size,
                                                   args.pool_size, dtype)
       IN /\ pooling' = made
          /\ spec_shape' =
                 Gemma3VisionAveragePooling_compute_output_shape(made, spec_shape)
    /\ pc' = "make_output"
    /\ UNCHANGED <<args, dtype, image_encoder, vision_output, self, config_out,
                   first, weights, call_vars>>

(* __init__, lines 89-97 *)
MakeOutput ==
    /\ pc = "make_output"
    /\ LET made == Gemma3VisionOutput_init(args.output_dim, args.layer_norm_epsilon,
                                           RandomNormal, dtype)
           built == Gemma3VisionOutput_build(made, spec_shape)
       IN /\ vision_output' = built
          /\ spec_shape' = Gemma3VisionOutput_compute_output_shape(built, spec_shape)
          /\ weights' = weights \o Gemma3VisionOutput_build_weights(built)
    /\ pc' = "finish"
    /\ UNCHANGED <<args, dtype, image_encoder, pooling, self, config_out, first,
                   call_vars>>

(* __init__, lines 99-127 *)
FinishInit ==
    /\ pc = "finish"
    /\ self' = Gemma3VisionEncoder_attributes(args, dtype, spec_shape)
    /\ pc' = "ready"
    /\ UNCHANGED <<args, dtype, image_encoder, pooling, vision_output, spec_shape,
                   config_out, first, weights, call_vars>>

----------------------------------------------------------------------------
(* Configuration extraction and reconstruction. *)

(* Gemma3VisionEncoder.get_config() *)
GetConfig ==
    /\ pc = "ready"
    /\ config_out' = Gemma3VisionEncoder_get_config(self)
    /\ pc' = "got_config"
    /\ UNCHANGED <<args, dtype, image_encoder, pooling, vision_output, spec_shape,
                   self, first, weights, call_vars>>

(* Gemma3VisionOutput.get_config() *)
OutputGetConfig ==
    /\ pc = "ready"
    /\ config_out' = Gemma3VisionOutput_get_config(vision_output)
    /\ pc' = "got_output_config"
    /\ UNCHANGED <<args, dtype, image_encoder, pooling, vision_output, spec_shape,
                   self, first, weights, call_vars>>

(* The caller is done with the returned value. *)
DropConfig ==
    /\ pc \in {"got_config", "got_output_config"}
    /\ config_out' = Null
    /\ pc' = "ready"
    /\ UNCHANGED <<args, dtype, image_encoder, pooling, vision_output, spec_shape,
                   self, first, weights, call_vars>>

(* A second encoder is constructed from the extracted configuration.  The    *)
(* framework's base configuration may or may not carry the dtype policy, so  *)
(* the new encoder is given either no dtype or the first one's policy object.*)
FromConfig ==
    /\ pc = "got_config"
    /\ \E d \in {NoDtype, DTypePolicy(self.dtype_policy)} :
          /\ args' = ArgsFromConfig(config_out, d)
          /\ dtype' = d
    /\ first' = [args |-> [f \in DOMAIN args \ {"dtype"} |-> args[f]],
                 arch |-> Architecture(self, image_encoder, pooling, vision_output)]
    /\ pc' = "init"
    /\ image_encoder' = Null
    /\ pooling' = Null
    /\ vision_output' = Null
    /\ spec_shape' = <<>>
    /\ self' = Null
    /\ config_out' = Null
    /\ weights' = <<>>
    /\ UNCHANGED call_vars

----------------------------------------------------------------------------
(* The forward pass. *)

AfterStage(shape, next) == IF shape = ShapeError THEN "shape_error" ELSE next

Stage(name, in, out) == [stage |-> name, input |-> in, output |-> out]

object_vars == <<args, dtype, image_encoder, pooling, vision_output, spec_shape,
                 self, config_out, first, weights>>

(* The functional model is called on an image batch: the stack is called     *)
(* without a mask, then pooling, then the output projection.                 *)
ModelCall ==
    /\ pc = "ready"
    /\ \E b \in 1..MaxBatch, t \in ImagesPerExample :
          /\ inputs' = <<b, t, self.image_size, self.image_size, NumChannels>>
          /\ x' = <<b, t, self.image_size, self.image_size, NumChannels>>
    /\ mask' = PyNone
    /\ caller' = "model"
    /\ layer_i' = 0
    /\ trace' = <<>>
    /\ pc' = "collapse"
    /\ UNCHANGED object_vars

(* The stack (the image_encoder layer) is called on its own, with a mask of  *)
(* shape (batch * images, 1, seq, seq) or with none.                         *)
BlockCall ==
    /\ pc = "ready"
    /\ \E b \in 1..MaxBatch, t \in ImagesPerExample :
          /\ inputs' = <<b, t, self.image_size, self.image_size, NumChannels>>
          /\ x' = <<b, t, self.image_size, self.image_size, NumChannels>>
          /\ LET seq == image_encoder.vision_embeddings.num_patches
             IN mask' \in {PyNone, [kind |-> "tensor", shape |-> <<b * t, 1, seq, seq>>]}
    /\ caller' = "stack"
    /\ layer_i' = 0
    /\ trace' = <<>>
    /\ pc' = "collapse"
    /\ UNCHANGED object_vars

(* Gemma3VisionEncoderBlock.call, lines 472-478 *)
Collapse ==
    /\ pc = "collapse"
    /\ LET out == CollapseBatch(x)
       IN /\ x' = out
          /\ trace' = Append(trace, Stage("collapse", x, out))
          /\ pc' = AfterStage(out, "embed")
    /\ UNCHANGED <<object_vars, inputs, mask, layer_i, caller>>

(* Gemma3VisionEncoderBlock.call, line 480 *)
Embed ==
    /\ pc = "embed"
    /\ LET out == Gemma3VisionEmbedding_call(image_encoder.vision_embeddings, x)
       IN /\ x' = out
          /\ trace' = Append(trace, Stage("embed", x, out))
          /\ pc' = AfterStage(out, "layers")
    /\ layer_i' = 0
    /\ UNCHANGED <<object_vars, inputs, mask, caller>>

(* `for block in self.resblocks`: the i-th iteration (0-based) takes the     *)
(* i-th element of the list.                                                 *)
(* A faulty variant of the loop: the list is walked from its end. *)
NextBlock_reversed(blocks, i) == blocks[Len(blocks) - i]

NextBlock(blocks, i) == blocks[i + 1]

(* One iteration of `for block in self.resblocks: x = block(x, mask=mask)` *)
RunLayer ==
    /\ pc = "layers"
    /\ layer_i < Len(image_encoder.resblocks)
    /\ LET block == NextBlock(image_encoder.resblocks, layer_i)
           out == Gemma3VisionEncoderLayer_call(block, x, mask)
       IN /\ x' = out
          /\ trace' = Append(trace, [stage |-> "layer", input |-> x, output |-> out,
                                     name |-> block.name, mask |-> mask])
          /\ pc' = AfterStage(out, "layers")
    /\ layer_i' = layer_i + 1
    /\ UNCHANGED <<object_vars, inputs, mask, caller>>

(* Gemma3VisionEncoderBlock.call, lines 483-484: the final normalization     *)
(* keeps the shape; the stack returns to whoever called it.                  *)
FinalNorm ==
    /\ pc = "layers"
    /\ layer_i = Len(image_encoder.resblocks)
    /\ trace' = Append(trace, Stage("encoder_layer_norm", x, x))
    /\ pc' = IF caller = "model" THEN "pool" ELSE "returned"
    /\ UNCHANGED <<object_vars, inputs, mask, x, layer_i, caller>>

(* A faulty variant of the pooling call: it stores the length of the token   *)
(* sequence it was given in self.width.                                      *)
Pool_storing_width ==
    /\ pc = "pool"
    /\ LET out == Gemma3VisionAveragePooling_call(pooling, x)
       IN /\ x' = out
          /\ trace' = Append(trace, Stage("pooling", x, out))
          /\ pc' = AfterStage(out, "project")
    /\ pooling' = [pooling EXCEPT !.width = x[2]]
    /\ UNCHANGED <<args, dtype, image_encoder, vision_output, spec_shape, self,
                   config_out, first, weights, inputs, mask, layer_i, caller>>

(* Gemma3VisionAveragePooling.call *)
Pool ==
    /\ pc = "pool"
    /\ LET out == Gemma3VisionAveragePooling_call(pooling, x)
       IN /\ x' = out
          /\ trace' = Append(trace, Stage("pooling", x, out))
          /\ pc' = AfterStage(out, "project")
    /\ UNCHANGED <<object_vars, inputs, mask, layer_i, caller>>

(* Gemma3VisionOutput.call *)
Project ==
    /\ pc = "project"
    /\ LET out == Gemma3VisionOutput_call(vision_output, x)
       IN /\ x' = out
          /\ trace' = Append(trace, Stage("vision_output_encoder", x, out))
          /\ pc' = AfterStage(out, "returned")
    /\ UNCHANGED <<object_vars, inputs, mask, layer_i, caller>>

(* The caller takes the result; the encoder is ready for the next call. *)
Return ==
    /\ pc = "returned"
    /\ pc' = "ready"
    /\ inputs' = <<>>
    /\ mask' = PyNone
    /\ x' = <<>>
    /\ layer_i' = 0
    /\ trace' = <<>>
    /\ caller' = "nobody"
    /\ UNCHANGED object_vars

Next ==
    \/ OverrideDtype
    \/ MakeEncoderBlock
    \/ MakePooling
    \/ MakeOutput
    \/ FinishInit
    \/ GetConfig
    \/ OutputGetConfig
    \/ DropConfig
    \/ FromConfig
    \/ ModelCall
    \/ BlockCall
    \/ Collapse
    \/ Embed
    \/ RunLayer
    \/ FinalNorm
    \/ Pool
    \/ Project
    \/ Return

Spec == Init /\ [][Next]_vars

----------------------------------------------------------------------------
(* Properties. *)

Constructed == pc \notin {"init", "make_block", "make_pooling", "make_output",
                          "finish", "raised"}

ModelReturned == pc = "returned" /\ caller = "model"

InvalidGrid(a) ==
    \/ a.image_size % a.patch_size # 0
    \/ (a.image_size \div a.patch_size) % a.pool_size # 0

(* C1: for every accepted configuration, the token dimension the forward     *)
(* pass produces (reduced_width * reduced_width) equals the attribute        *)
(* num_vision_tokens_per_image, the output shape is (batch * images,         *)
(* num_vision_tokens_per_image, output_dim), and 896/14/4 gives 256.         *)
C1_TokensMatchAttribute ==
    /\ NumVisionTokensPerImage(896, 14, 4) = 256
    /\ Gemma3VisionAveragePooling_init(896, 14, 4, NoDtype).reduced_width = 16
    /\ ModelReturned =>
          /\ pooling.reduced_width * pooling.reduced_width
                 = self.num_vision_tokens_per_image
          /\ x = <<inputs[1] * inputs[2], self.num_vision_tokens_per_image,
                   self.output_dim>>

(* C2: a configuration whose image_size is not divisible by patch_size, or   *)
(* whose grid width is not divisible by pool_size, never yields an encoder   *)
(* object: construction ends in an error.                                    *)
C2_InvalidGridRaises ==
    InvalidGrid(args) => (self = Null /\ ~Constructed)

IndivisibleHeads(a) == a.hidden_dim % a.num_heads # 0

InConstructionOrRaised == pc \in {"init", "make_block", "raised"}

C4_EpsilonReachesEveryNorm ==
    Constructed =>
       /\ \A i \in 1..Len(image_encoder.resblocks) :
             /\ image_encoder.resblocks[i].layer_norm_1.epsilon = args.layer_norm_epsilon
             /\ image_encoder.resblocks[i].layer_norm_2.epsilon = args.layer_norm_epsilon
       /\ image_encoder.encoder_layer_norm.epsilon = args.layer_norm_epsilon
       /\ vision_output.vision_soft_embedding_norm.epsilon = args.layer_norm_epsilon

(* The dtype argument every sub-layer constructed so far was given. *)
SubLayerDtypes ==
    (IF image_encoder = Null THEN {}
     ELSE {image_encoder.dtype, image_encoder.encoder_layer_norm.dtype,
           image_encoder.vision_embeddings.dtype}
          \cup {image_encoder.resblocks[i].dtype :
                   i \in 1..Len(image_encoder.resblocks)})
    \cup (IF pooling = Null THEN {} ELSE {pooling.dtype})
    \cup (IF vision_output = Null THEN {} ELSE {vision_output.dtype})

RequestedBfloat16 == args.dtype.kind # "none" /\ args.dtype.name = "bfloat16"

(* C5: when the requested precision is bfloat16, every sub-layer is          *)
(* constructed with float32, none with bfloat16, and the encoder's           *)
(* dtype_policy is float32; any other requested precision reaches the        *)
(* sub-layers unchanged.                                                     *)
C5_Bfloat16OverriddenBeforeSublayers ==
    /\ RequestedBfloat16 =>
          /\ \A d \in SubLayerDtypes : DTypePoliciesGet(d) = "float32"
          /\ self # Null => self.dtype_policy = "float32"
    /\ ~RequestedBfloat16 => \A d \in SubLayerDtypes : d = args.dtype

ConfigFields == {"image_size", "patch_size", "num_heads", "hidden_dim", "num_layers",
                 "intermediate_dim", "output_dim", "pool_size", "layer_norm_epsilon"}

(* C6: get_config() of the encoder holds each of the nine fields with the    *)
(* value the encoder was constructed with, and an encoder constructed from   *)
(* the extracted configuration has the same nine values, the same sublayer   *)
(* topology and the same derived shapes as the one it was extracted from.    *)
C6_ConfigRoundTrip ==
    /\ pc = "got_config" =>
          /\ ConfigFields \subseteq DOMAIN config_out
          /\ \A f \in ConfigFields : config_out[f] = args[f]
    /\ (first # Null /\ pc # "init") =>
          \A f \in ConfigFields : args[f] = first.args[f]
    /\ (first # Null /\ Constructed) =>
          Architecture(self, image_encoder, pooling, vision_output) = first.arch

C6_Witness ==
    /\ first # Null /\ pc = "ready"
    /\ args.num_layers >= 1 /\ args.image_size > args.patch_size
    /\ first.arch.reduced_width >= 2

(* C7: get_config() of the output projection returns a configuration that    *)
(* holds output_dim, layer_norm_epsilon and kernel_initializer with the      *)
(* values the layer was constructed with.                                    *)
C7_OutputConfigComplete ==
    pc = "got_output_config" =>
       /\ config_out # PyNone
       /\ {"output_dim", "layer_norm_epsilon", "kernel_initializer"}
              \subseteq DOMAIN config_out
       /\ config_out.output_dim = vision_output.output_dim
       /\ config_out.layer_norm_epsilon = vision_output.layer_norm_epsilon
       /\ config_out.kernel_initializer
              = SerializeInitializer(vision_output.kernel_initializer)

(* The stage of the current forward pass named n has run. *)
Ran(n) == \E k \in 1..Len(trace) : trace[k].stage = n

EntryOf(n) == trace[CHOOSE k \in 1..Len(trace) : trace[k].stage = n]

(* C8: with image_size divisible by patch_size, num_patches is               *)
(* (image_size / patch_size)^2, the position indices are 0..num_patches-1,   *)
(* the embedding's output has num_patches as its second dimension in call    *)
(* and in compute_output_shape, and the stack's compute_output_shape derives *)
(* the same token count from the input shape.                                *)
C8_NumPatches ==
    (image_encoder # Null /\ args.image_size % args.patch_size = 0) =>
       LET emb == image_encoder.vision_embeddings
           q == CHOOSE k \in 0..args.image_size : k * args.patch_size = args.image_size
           symbolic == <<NoneDim, NoneDim, args.image_size, args.image_size, NumChannels>>
       IN /\ emb.num_patches = q * q
          /\ Len(emb.position_ids[1]) = emb.num_patches
          /\ \A i \in 1..emb.num_patches : emb.position_ids[1][i] = i - 1
          /\ Gemma3VisionEmbedding_compute_output_shape(
                 emb, SubSeq(symbolic, 2, 5))[2] = emb.num_patches
          /\ Gemma3VisionEncoderBlock_compute_output_shape(
                 image_encoder, symbolic)[2] = emb.num_patches
          /\ Ran("embed") =>
                /\ EntryOf("embed").output # ShapeError
                /\ EntryOf("embed").output[2] = emb.num_patches
                /\ EntryOf("embed").output
                       = <<inputs[1] * inputs[2], q * q, args.hidden_dim>>

C8_Witness ==
    /\ Ran("embed") /\ pc = "layers"
    /\ args.image_size % args.patch_size = 0
    /\ args.patch_size > 1
    /\ image_encoder.vision_embeddings.num_patches = 9

StackOutputShape ==
    <<inputs[1] * inputs[2], image_encoder.vision_embeddings.num_patches,
      image_encoder.hidden_dim>>

(* C9: every encoder layer returns a tensor of the shape it was given, with  *)
(* and without a mask, so the tensor leaving the stack after any number of   *)
(* layers and the final normalization has shape (batch * images,             *)
(* num_patches, hidden_dim), which is what pooling receives.                 *)
C9_LayerShapePreserving ==
    /\ pc # "shape_error"
    /\ \A k \in 1..Len(trace) :
          trace[k].stage = "layer" =>
             /\ trace[k].input # ShapeError
             /\ Len(trace[k].input) = 3
             /\ trace[k].output = trace[k].input
    /\ Ran("encoder_layer_norm") =>
          EntryOf("encoder_layer_norm").output = StackOutputShape
    /\ Ran("pooling") => EntryOf("pooling").input = StackOutputShape

C9_Witness ==
    /\ pc = "returned" /\ caller = "stack"
    /\ mask.kind = "tensor"
    /\ Len(image_encoder.resblocks) >= 2
    /\ trace[4].stage = "layer"
    /\ trace[4].output = <<4, 9, 4>>

ExpectedStages ==
    <<"collapse", "embed">>
        \o [i \in 1..Len(image_encoder.resblocks) |-> "layer"]
        \o <<"encoder_layer_norm">>
        \o (IF caller = "model" THEN <<"pooling", "vision_output_encoder">> ELSE <<>>)

(* C10: in one forward pass the stages run in the order collapse, embedding, *)
(* layers 0 .. num_layers-1 in index order, final normalization and, for the *)
(* whole model, pooling and then the output projection; each runs exactly    *)
(* once, each layer receives the mask given to the stack, and each stage     *)
(* works on the result of the stage before it.                               *)
C10_StageOrder ==
    caller # "nobody" =>
       /\ Len(trace) <= Len(ExpectedStages)
       /\ \A k \in 1..Len(trace) :
             /\ trace[k].stage = ExpectedStages[k]
             /\ trace[k].input = (IF k = 1 THEN inputs ELSE trace[k - 1].output)
             /\ trace[k].stage = "layer" =>
                   /\ trace[k].name = <<"encoder_block", k - 3>>
                   /\ trace[k].mask = mask
       /\ Len(trace) > 0 => x = trace[Len(trace)].output
       /\ pc = "returned" => Len(trace) = Len(ExpectedStages)
       /\ caller = "model" => mask = PyNone

C10_Witness ==
    /\ pc = "returned" /\ caller = "model"
    /\ Len(image_encoder.resblocks) >= 2
    /\ Len(trace) >= 7

(* A step of a forward pass: its start, one of its stages, or its return. *)
ForwardStep ==
    \/ pc \in {"collapse", "embed", "layers", "pool", "project", "returned"}
    \/ (pc = "ready" /\ pc' = "collapse")

(* The derived values and parameters of a constructed encoder are the ones   *)
(* construction computes from the arguments.                                 *)
ValuesFixedAtConstruction ==
    Constructed =>
       /\ \A f \in ConfigFields : self[f] = args[f]
       /\ self.num_vision_tokens_per_image
              = NumVisionTokensPerImage(args.image_size, args.patch_size, args.pool_size)
       /\ image_encoder.vision_embeddings.num_patches
              = NumPatches(args.image_size, args.patch_size)
       /\ image_encoder.vision_embeddings.position_ids
              = <<Arange(NumPatches(args.image_size, args.patch_size))>>
       /\ pooling.width = args.image_size \div args.patch_size
       /\ pooling.reduced_width
              = (args.image_size \div args.patch_size) \div args.pool_size
       /\ \A i \in 1..Len(image_encoder.resblocks) :
             image_encoder.resblocks[i].attn.head_dim
                 = args.hidden_dim \div args.num_heads
       /\ Len(weights) = 3 + 16 * args.num_layers + 2 + 2
       /\ \A k \in 1..Len(weights) : weights[k].updates = 0

(* C11: no step of a forward pass assigns to a learned parameter, to a       *)
(* configuration field or to a derived shape value: the encoder, its         *)
(* sublayers and its parameters are the same after the step as before, and   *)
(* after any sequence of forward passes they hold the values fixed at        *)
(* construction.                                                             *)
C11_ForwardPassFrame ==
    /\ []ValuesFixedAtConstruction
    /\ [][ForwardStep =>
             UNCHANGED <<args, image_encoder, pooling, vision_output, self, weights>>]_vars

C11_Witness ==
    /\ ModelReturned
    /\ Ran("vision_output_encoder")
    /\ Len(weights) > 7
    /\ image_encoder.resblocks[1].attn.head_dim = 3
    /\ pooling.reduced_width = 2

(* The side of the patch grid and of the pooled grid, by floor division. *)
GridWidth(a) == a.image_size \div a.patch_size

ReducedWidth(a) == (a.image_size \div a.patch_size) \div a.pool_size

====
